---- MODULE Spec2Model ----
(***************************************************************************)
(* Model of the useXChat hook (src/unnamed/part_000): the message store,   *)
(* the id generator and the request orchestrator (onRequest and the        *)
(* onUpdate / onSuccess / onError handlers it hands to agent.request).     *)
(*                                                                         *)
(* The hook runs on one JavaScript thread: every handler runs to           *)
(* completion, and the only suspension point is the `await` of a function  *)
(* fallback inside onError.  The agent is an external collaborator; in     *)
(* Spec it keeps its contract (zero or more onUpdate, then exactly one of  *)
(* onSuccess / onError) and may deliver its first events synchronously     *)
(* inside agent.request.                                                   *)
(***************************************************************************)
EXTENDS Integers, Sequences, FiniteSets, TLC

\* ------------------------------------------------------------- bounds
MaxCalls == 2      \* onRequest calls in one behaviour
MaxSync == 1       \* events an agent delivers synchronously inside request()
MaxLate == 1       \* events agents deliver after a terminal event

\* ------------------------------------------------------------- values
\* SimpleType values used as message payloads, one set per role so that a
\* record's payload tells where it came from.  "" is the falsy one: the
\* source tests its configuration with `if (requestPlaceholder)` and
\* `if (requestFallback)`.
UserMessages == {"q"}          \* arguments of onRequest
UpdateMessages == {"", "u"}    \* arguments of onUpdate
SuccessMessages == {"f"}       \* arguments of onSuccess
PlaceholderValues == {"", "p"} \* values of config.requestPlaceholder
PlaceholderReturns == {"p"}    \* results of a placeholder function
FallbackValues == {"", "e"}    \* values of config.requestFallback
FallbackReturns == {"e"}       \* results of a fallback function

MessageStatus == {"local", "loading", "success", "error"}

\* JavaScript truthiness of a payload.
Truthy(v) == v # ""

\* `null`, the initial value of loadingMsgId and updatingMsgId.
null == <<>>

\* requestPlaceholder / requestFallback: undefined, a value, or a function.
ConfigValues(values) ==
    {[kind |-> "undefined", value |-> ""], [kind |-> "function", value |-> ""]}
        \cup {[kind |-> "value", value |-> v] : v \in values}

\* `if (requestPlaceholder)` / `if (requestFallback)`: a function is truthy,
\* a value is tested by its truthiness, undefined is falsy.
IsSet(cfg) ==
    \/ cfg.kind = "function"
    \/ cfg.kind = "value" /\ Truthy(cfg.value)

\* config.defaultMessages: {message, status?} records (ids are left to the
\* hook): no seed, and a seed with one record of every status.
DefaultMessages ==
    {<<>>,
     <<[message |-> "d0", status |-> "local"],
       [message |-> "d1", status |-> "loading"],
       [message |-> "d2", status |-> "success"],
       [message |-> "d3", status |-> "error"]>>}

\* The events an agent can deliver to the handlers of one request.
Events ==
    {[type |-> "onUpdate", message |-> m] : m \in UpdateMessages}
        \cup {[type |-> "onSuccess", message |-> m] : m \in SuccessMessages}
        \cup {[type |-> "onError", message |-> ""]}

NoEvent == [type |-> "none", message |-> ""]

IsTerminal(ev) == ev.type \in {"onSuccess", "onError"}

\* Event sequences that keep the agent contract: updates, then at most one
\* terminal event, which is the last.
SyncEvents ==
    {evs \in UNION {[1..n -> Events] : n \in 0..MaxSync} :
        \A i \in 1..Len(evs) : IsTerminal(evs[i]) => i = Len(evs)}

VARIABLES
    agent,              \* config.agent is configured
    requestPlaceholder, \* config.requestPlaceholder
    requestFallback,    \* config.requestFallback
    defaultMessages,    \* config.defaultMessages
    messages,           \* the store: the cell behind getMessages()
    idRef,              \* idRef.current
    calls,              \* one closure per onRequest call that got past the agent check
    thrown,             \* the handler that ran last was an onRequest that threw
    synced,             \* events the handler that ran last, an onRequest, got
                        \* from its agent before agent.request returned
    rendered,           \* `messages`: the store as of the last render, which
                        \* observers and parsedMessages see
    batching,           \* the host defers the re-render a setter asks for
    late                \* events agents delivered after a terminal event

vars == <<agent, requestPlaceholder, requestFallback, defaultMessages,
          messages, idRef, calls, thrown, synced, rendered, batching, late>>

config == <<agent, requestPlaceholder, requestFallback, defaultMessages,
            batching>>

\* ------------------------------------------------------------- the store
\* useSyncState's initial value: the seed records.  An id is modelled as
\* the tuple of the parts its string has between underscores, so that
\* `default_${index}` is <<"default", index>> and `${key}_${i}` appends i.
\* A seed's own id and status, when given, replace the defaults.
InitMessages(defaults) ==
    [index \in 1..Len(defaults) |->
        [id |-> IF "id" \in DOMAIN defaults[index]
                THEN defaults[index].id
                ELSE <<"default", index - 1>>,
         message |-> defaults[index].message,
         status |-> IF "status" \in DOMAIN defaults[index]
                    THEN defaults[index].status
                    ELSE "local"]]

\* The synchronous getter of useSyncState: the committed sequence.
getMessages(ctx) == ctx.messages

\* The setter of useSyncState: commits at once.
setMessages(ctx, next) == [ctx EXCEPT !.messages = next]

\* ------------------------------------------------------------- createMessage
createMessageNoIncrement(ref, message, status) ==
    [msg |-> [id |-> <<"msg", ref>>, message |-> message, status |-> status],
     idRef |-> ref]

createMessage(ref, message, status) ==
    [msg |-> [id |-> <<"msg", ref>>, message |-> message, status |-> status],
     idRef |-> ref + 1]

\* ------------------------------------------------------------- parsedMessages
\* Payloads that are JavaScript arrays, and their elements.
ArrayValues ==
    [a \in {"[]", "[x]", "[x,y]"} |->
        CASE a = "[]" -> <<>>
          [] a = "[x]" -> <<"x">>
          [] a = "[x,y]" -> <<"x", "y">>]

\* Array.isArray(item)
IsArray(item) == item \in DOMAIN ArrayValues

toArray(item) == IF IsArray(item) THEN ArrayValues[item] ELSE <<item>>

\* config.parser: undefined, or one of these functions of a message.
Parsers == {"identity", "split", "wrap", "drop", "splitFirst"}

Parse(parser, message) ==
    CASE parser = "identity" -> message
      [] parser = "split" -> "[x,y]"
      [] parser = "wrap" -> "[x]"
      [] parser = "drop" -> "[]"
      [] parser = "splitFirst" ->
            IF message \in {"d0", "q"} THEN "[x,y]" ELSE message

\* The id of the bubbleMsgIndex-th of the bubble messages of one record.
bubbleKeyAlwaysSuffixed(key, bubbleMsgs, bubbleMsgIndex) ==
    Append(key, bubbleMsgIndex)

bubbleKey(key, bubbleMsgs, bubbleMsgIndex) ==
    IF Len(bubbleMsgs) > 1 THEN Append(key, bubbleMsgIndex) ELSE key

\* The display records of one stored record.
bubbleMessages(parser, agentMsg) ==
    LET rawParsedMsg ==
            IF parser # "undefined"
            THEN Parse(parser, agentMsg.message)
            ELSE agentMsg.message
        bubbleMsgs == toArray(rawParsedMsg)
    IN  [i \in 1..Len(bubbleMsgs) |->
            [id |-> bubbleKey(agentMsg.id, bubbleMsgs, i - 1),
             message |-> bubbleMsgs[i],
             status |-> agentMsg.status]]

RECURSIVE parsedMessages(_, _)
parsedMessages(parser, msgs) ==
    IF msgs = <<>> THEN <<>>
    ELSE bubbleMessages(parser, Head(msgs)) \o parsedMessages(parser, Tail(msgs))

\* ------------------------------------------------------------- history
getFilteredMessagesKeepError(msgs) ==
    LET kept == SelectSeq(msgs, LAMBDA info : info.status # "loading")
    IN  [i \in 1..Len(kept) |-> kept[i].message]

getFilteredMessages(msgs) ==
    LET kept == SelectSeq(msgs,
                    LAMBDA info : info.status # "loading" /\ info.status # "error")
    IN  [i \in 1..Len(kept) |-> kept[i].message]

getRequestMessages(ctx) == getFilteredMessages(getMessages(ctx))

\* ------------------------------------------------------------- one request
\* A context is the state one handler works on: the store, the id counter
\* and the closure of its onRequest call.  The closure holds the source's
\* loadingMsgId and updatingMsgId, and records what the orchestrator handed
\* to its collaborators:
\*   message              the argument of onRequest
\*   last                 the last event the agent delivered
\*   awaiting             onError calls suspended at `await requestFallback(..)`
\*   created              ids of the records createMessage made for this call
\*   localMsgId           id of the record of `message`
\*   requestMessages      `messages` handed to agent.request
\*   placeholderMessages  `messages` handed to the placeholder function
\*   fallbackMessages     `messages` handed to the fallback function
NewCall(message) ==
    [message |-> message, loadingMsgId |-> null, updatingMsgId |-> null,
     last |-> NoEvent, awaiting |-> 0,
     created |-> {}, localMsgId |-> null,
     requestMessages |-> <<>>, placeholderMessages |-> <<>>,
     fallbackMessages |-> <<>>]

HasId(msgs, id) == \E i \in 1..Len(msgs) : msgs[i].id = id

\* updateMessage(message, status) of one onRequest call.
updateMessageKeepPending(ctx, message, status) ==
    LET updatingMsgId == ctx.call.updatingMsgId
    IN  IF ~HasId(getMessages(ctx), updatingMsgId)
        THEN LET c == createMessage(ctx.idRef, message, status)
             IN  [setMessages(ctx, Append(getMessages(ctx), c.msg))
                    EXCEPT !.idRef = c.idRef,
                           !.call.updatingMsgId = c.msg.id,
                           !.call.created = @ \cup {c.msg.id}]
        ELSE setMessages(ctx,
                [i \in 1..Len(getMessages(ctx)) |->
                    LET info == getMessages(ctx)[i]
                    IN  IF info.id = updatingMsgId
                        THEN [info EXCEPT !.message = message, !.status = status]
                        ELSE info])

updateMessageMapAll(ctx, message, status) ==
    LET updatingMsgId == ctx.call.updatingMsgId
        loadingMsgId == ctx.call.loadingMsgId
    IN  IF ~HasId(getMessages(ctx), updatingMsgId)
        THEN LET c == createMessage(ctx.idRef, message, status)
                 oriWithoutPending ==
                     SelectSeq(getMessages(ctx), LAMBDA info : info.id # loadingMsgId)
             IN  [setMessages(ctx, Append(oriWithoutPending, c.msg))
                    EXCEPT !.idRef = c.idRef,
                           !.call.updatingMsgId = c.msg.id,
                           !.call.created = @ \cup {c.msg.id}]
        ELSE setMessages(ctx,
                [i \in 1..Len(getMessages(ctx)) |->
                    [getMessages(ctx)[i] EXCEPT !.message = message, !.status = status]])

updateMessageAlwaysCreate(ctx, message, status) ==
    LET loadingMsgId == ctx.call.loadingMsgId
        c == createMessage(ctx.idRef, message, status)
        oriWithoutPending ==
            SelectSeq(getMessages(ctx), LAMBDA info : info.id # loadingMsgId)
    IN  [setMessages(ctx, Append(oriWithoutPending, c.msg))
           EXCEPT !.idRef = c.idRef,
                  !.call.updatingMsgId = c.msg.id,
                  !.call.created = @ \cup {c.msg.id}]

updateMessageFindInRendered(ctx, message, status) ==
    LET updatingMsgId == ctx.call.updatingMsgId
        loadingMsgId == ctx.call.loadingMsgId
    IN  IF ~HasId(ctx.rendered, updatingMsgId)
        THEN LET c == createMessage(ctx.idRef, message, status)
                 oriWithoutPending ==
                     SelectSeq(getMessages(ctx), LAMBDA info : info.id # loadingMsgId)
             IN  [setMessages(ctx, Append(oriWithoutPending, c.msg))
                    EXCEPT !.idRef = c.idRef,
                           !.call.updatingMsgId = c.msg.id,
                           !.call.created = @ \cup {c.msg.id}]
        ELSE setMessages(ctx,
                [i \in 1..Len(getMessages(ctx)) |->
                    LET info == getMessages(ctx)[i]
                    IN  IF info.id = updatingMsgId
                        THEN [info EXCEPT !.message = message, !.status = status]
                        ELSE info])

updateMessage(ctx, message, status) ==
    LET updatingMsgId == ctx.call.updatingMsgId
        loadingMsgId == ctx.call.loadingMsgId
    IN  IF ~HasId(getMessages(ctx), updatingMsgId)
        THEN \* Create if not exist
             LET c == createMessage(ctx.idRef, message, status)
                 oriWithoutPending ==
                     SelectSeq(getMessages(ctx), LAMBDA info : info.id # loadingMsgId)
             IN  [setMessages(ctx, Append(oriWithoutPending, c.msg))
                    EXCEPT !.idRef = c.idRef,
                           !.call.updatingMsgId = c.msg.id,
                           !.call.created = @ \cup {c.msg.id}]
        ELSE \* Update directly
             setMessages(ctx,
                [i \in 1..Len(getMessages(ctx)) |->
                    LET info == getMessages(ctx)[i]
                    IN  IF info.id = updatingMsgId
                        THEN [info EXCEPT !.message = message, !.status = status]
                        ELSE info])

\* ori.filter((info) => info.id !== loadingMsgId && info.id !== updatingMsgId)
withoutRequestRecordsByStatus(ctx) ==
    SelectSeq(getMessages(ctx), LAMBDA info : info.status # "loading")

withoutRequestRecords(ctx) ==
    SelectSeq(getMessages(ctx),
        LAMBDA info : info.id # ctx.call.loadingMsgId
                        /\ info.id # ctx.call.updatingMsgId)

\* The setMessages of onError's fallback branch, run once fallbackMsg is known.
applyFallbackPrepend(ctx, fallbackMsg) ==
    LET ori == withoutRequestRecords(ctx)
        c == createMessage(ctx.idRef, fallbackMsg, "error")
    IN  [setMessages(ctx, <<c.msg>> \o ori)
           EXCEPT !.idRef = c.idRef,
                  !.call.created = @ \cup {c.msg.id}]

applyFallback(ctx, fallbackMsg) ==
    LET ori == withoutRequestRecords(ctx)
        c == createMessage(ctx.idRef, fallbackMsg, "error")
    IN  [setMessages(ctx, Append(ori, c.msg))
           EXCEPT !.idRef = c.idRef,
                  !.call.created = @ \cup {c.msg.id}]

\* `messages` of the info object handed to the fallback function.
fallbackInfoMessagesAtSubmit(ctx) == ctx.call.requestMessages

fallbackInfoMessages(ctx) == getRequestMessages(ctx)

\* onError(error) up to its first suspension: a function fallback is called
\* and awaited, a value fallback is applied at once, no fallback removes.
onErrorKeepRecords(ctx) ==
    IF IsSet(requestFallback)
    THEN IF requestFallback.kind = "function"
         THEN [ctx EXCEPT !.call.awaiting = @ + 1,
                          !.call.fallbackMessages = fallbackInfoMessages(ctx)]
         ELSE applyFallback(ctx, requestFallback.value)
    ELSE ctx

onErrorRemoveBeforeAwait(ctx) ==
    IF IsSet(requestFallback)
    THEN IF requestFallback.kind = "function"
         THEN [setMessages(ctx, withoutRequestRecords(ctx))
                 EXCEPT !.call.awaiting = @ + 1,
                        !.call.fallbackMessages = fallbackInfoMessages(ctx)]
         ELSE applyFallback(ctx, requestFallback.value)
    ELSE setMessages(ctx, withoutRequestRecords(ctx))

onError(ctx) ==
    IF IsSet(requestFallback)
    THEN IF requestFallback.kind = "function"
         THEN [ctx EXCEPT !.call.awaiting = @ + 1,
                          !.call.fallbackMessages = fallbackInfoMessages(ctx)]
         ELSE applyFallback(ctx, requestFallback.value)
    ELSE \* Remove directly
         setMessages(ctx, withoutRequestRecords(ctx))

\* One event of the agent, handed to the handler of its name.
DeliverUntilTerminal(ctx, ev) ==
    IF IsTerminal(ctx.call.last)
    THEN ctx
    ELSE LET done ==
                 CASE ev.type = "onUpdate" -> updateMessage(ctx, ev.message, "loading")
                   [] ev.type = "onSuccess" -> updateMessage(ctx, ev.message, "success")
                   [] ev.type = "onError" -> onError(ctx)
         IN  [done EXCEPT !.call.last = ev]

Deliver(ctx, ev) ==
    LET done ==
            CASE ev.type = "onUpdate" -> updateMessage(ctx, ev.message, "loading")
              [] ev.type = "onSuccess" -> updateMessage(ctx, ev.message, "success")
              [] ev.type = "onError" -> onError(ctx)
    IN  [done EXCEPT !.call.last = ev]

RECURSIVE DeliverAll(_, _)
DeliverAll(ctx, evs) ==
    IF evs = <<>> THEN ctx
    ELSE DeliverAll(Deliver(ctx, Head(evs)), Tail(evs))

\* ------------------------------------------------------------- onRequest
\* The hook's state as one record, so that a whole handler is one function.
State ==
    [messages |-> messages, idRef |-> idRef, calls |-> calls,
     thrown |-> thrown, synced |-> synced, rendered |-> rendered]

\* The setMessages of onRequest ("Add placeholder message") and the closure
\* it leaves: placeholderResult is what the placeholder function returns.
addRequestMessages(st, message, placeholderResult) ==
    LET local == createMessage(st.idRef, message, "local")
        withLocal == Append(st.messages, local.msg)
        placeholderMsg ==
            IF requestPlaceholder.kind = "function"
            THEN placeholderResult
            ELSE requestPlaceholder.value
        loadingMsg == createMessage(local.idRef, placeholderMsg, "loading")
    IN  IF IsSet(requestPlaceholder)
        THEN [messages |-> Append(withLocal, loadingMsg.msg),
              idRef |-> loadingMsg.idRef,
              rendered |-> st.rendered,
              call |-> [NewCall(message) EXCEPT
                          !.loadingMsgId = loadingMsg.msg.id,
                          !.localMsgId = local.msg.id,
                          !.created = {local.msg.id, loadingMsg.msg.id},
                          !.placeholderMessages =
                              IF requestPlaceholder.kind = "function"
                              THEN getFilteredMessages(withLocal)
                              ELSE <<>>]]
        ELSE [messages |-> withLocal,
              idRef |-> local.idRef,
              rendered |-> st.rendered,
              call |-> [NewCall(message) EXCEPT
                          !.localMsgId = local.msg.id,
                          !.created = {local.msg.id}]]

\* onRequest(message) with an agent whose request() delivers evs before it
\* returns.
onRequestCheckAgentLate(st, message, placeholderResult, evs) ==
    LET added == addRequestMessages(st, message, placeholderResult)
    IN  IF ~agent
        THEN [st EXCEPT !.messages = added.messages, !.idRef = added.idRef,
                        !.thrown = TRUE, !.synced = 0]
        ELSE LET issued ==
                     [added EXCEPT !.call.requestMessages = getRequestMessages(added)]
                 returned == DeliverAll(issued, evs)
             IN  [messages |-> returned.messages,
                  idRef |-> returned.idRef,
                  calls |-> Append(st.calls, returned.call),
                  thrown |-> FALSE,
                  synced |-> Len(evs),
                  rendered |-> st.rendered]

onRequestHistoryFirst(st, message, placeholderResult, evs) ==
    IF ~agent
    THEN [st EXCEPT !.thrown = TRUE, !.synced = 0]
    ELSE LET added == addRequestMessages(st, message, placeholderResult)
             issued ==
                 [added EXCEPT !.call.requestMessages = getFilteredMessages(st.messages)]
             returned == DeliverAll(issued, evs)
         IN  [messages |-> returned.messages,
              idRef |-> returned.idRef,
              calls |-> Append(st.calls, returned.call),
              thrown |-> FALSE,
              synced |-> Len(evs),
              rendered |-> st.rendered]

onRequest(st, message, placeholderResult, evs) ==
    IF ~agent
    THEN [st EXCEPT !.thrown = TRUE, !.synced = 0]
    ELSE LET added == addRequestMessages(st, message, placeholderResult)
             issued ==
                 [added EXCEPT !.call.requestMessages = getRequestMessages(added)]
             returned == DeliverAll(issued, evs)
         IN  [messages |-> returned.messages,
              idRef |-> returned.idRef,
              calls |-> Append(st.calls, returned.call),
              thrown |-> FALSE,
              synced |-> Len(evs),
              rendered |-> st.rendered]

\* ------------------------------------------------------------- actions
\* The re-render a handler's setter calls ask for: at once, or left to the
\* host's next render when it batches.
Rerender(next) ==
    rendered' = IF batching THEN rendered ELSE next

Commit(st) ==
    /\ messages' = st.messages
    /\ idRef' = st.idRef
    /\ calls' = st.calls
    /\ thrown' = st.thrown
    /\ synced' = st.synced
    /\ Rerender(st.messages)
    /\ UNCHANGED <<config, late>>

\* The context of call r, and the state after its handler returned ctx.
Ctx(r) ==
    [messages |-> messages, idRef |-> idRef, rendered |-> rendered,
     call |-> calls[r]]

StoreCtx(r, ctx) ==
    /\ messages' = ctx.messages
    /\ idRef' = ctx.idRef
    /\ calls' = [calls EXCEPT ![r] = ctx.call]
    /\ thrown' = FALSE
    /\ synced' = 0
    /\ Rerender(ctx.messages)
    /\ UNCHANGED config

CommitCtx(r, ctx) ==
    /\ StoreCtx(r, ctx)
    /\ UNCHANGED late

\* The results a placeholder function can return.
PlaceholderResults ==
    IF requestPlaceholder.kind = "function" THEN PlaceholderReturns ELSE {""}

InFlight(r) == ~IsTerminal(calls[r].last)

Init ==
    /\ agent \in BOOLEAN
    /\ requestPlaceholder \in ConfigValues(PlaceholderValues)
    /\ requestFallback \in ConfigValues(FallbackValues)
    /\ defaultMessages \in DefaultMessages
    /\ messages = InitMessages(defaultMessages)
    /\ idRef = 0
    /\ calls = <<>>
    /\ thrown = FALSE
    /\ synced = 0
    /\ rendered = messages
    /\ batching = FALSE
    /\ late = 0

OnRequest ==
    \E message \in UserMessages, placeholderResult \in PlaceholderResults,
       evs \in SyncEvents :
        /\ Len(calls) < MaxCalls
        /\ Commit(onRequest(State, message, placeholderResult, evs))

OnUpdate ==
    \E r \in DOMAIN calls, message \in UpdateMessages :
        /\ InFlight(r)
        /\ CommitCtx(r, Deliver(Ctx(r), [type |-> "onUpdate", message |-> message]))

OnSuccess ==
    \E r \in DOMAIN calls, message \in SuccessMessages :
        /\ InFlight(r)
        /\ CommitCtx(r, Deliver(Ctx(r), [type |-> "onSuccess", message |-> message]))

OnError ==
    \E r \in DOMAIN calls :
        /\ InFlight(r)
        /\ CommitCtx(r, Deliver(Ctx(r), [type |-> "onError", message |-> ""]))

\* The awaited fallback function's value arrives: onError resumes.
FallbackResolved ==
    \E r \in DOMAIN calls, fallbackMsg \in FallbackReturns :
        /\ calls[r].awaiting > 0
        /\ CommitCtx(r, [applyFallback(Ctx(r), fallbackMsg)
                            EXCEPT !.call.awaiting = @ - 1])

\* The awaited fallback function's promise rejects: onError ends there.
FallbackRejected ==
    \E r \in DOMAIN calls :
        /\ calls[r].awaiting > 0
        /\ CommitCtx(r, [Ctx(r) EXCEPT !.call.awaiting = @ - 1])

Next ==
    \/ OnRequest
    \/ OnUpdate
    \/ OnSuccess
    \/ OnError
    \/ FallbackResolved
    \/ FallbackRejected

Spec == Init /\ [][Next]_vars

\* ------------------------------------------------------------- late events
\* An agent that breaks its contract: it calls a handler of a request again
\* after that request's onSuccess or onError.  The handlers are the same
\* closures, so the event goes through the same code.
InitLate ==
    /\ agent = TRUE
    /\ requestPlaceholder \in {[kind |-> "undefined", value |-> ""],
                               [kind |-> "value", value |-> "p"]}
    /\ requestFallback \in {[kind |-> "undefined", value |-> ""],
                            [kind |-> "value", value |-> "e"]}
    /\ defaultMessages = <<>>
    /\ messages = InitMessages(defaultMessages)
    /\ idRef = 0
    /\ calls = <<>>
    /\ thrown = FALSE
    /\ synced = 0
    /\ rendered = messages
    /\ batching = FALSE
    /\ late = 0

LateCtx(r, ctx) ==
    /\ StoreCtx(r, ctx)
    /\ late' = late + 1

OnLateUpdate ==
    \E r \in DOMAIN calls, message \in UpdateMessages :
        /\ IsTerminal(calls[r].last)
        /\ late < MaxLate
        /\ LateCtx(r, Deliver(Ctx(r), [type |-> "onUpdate", message |-> message]))

OnLateSuccess ==
    \E r \in DOMAIN calls, message \in SuccessMessages :
        /\ IsTerminal(calls[r].last)
        /\ late < MaxLate
        /\ LateCtx(r, Deliver(Ctx(r), [type |-> "onSuccess", message |-> message]))

OnLateError ==
    \E r \in DOMAIN calls :
        /\ IsTerminal(calls[r].last)
        /\ late < MaxLate
        /\ LateCtx(r, Deliver(Ctx(r), [type |-> "onError", message |-> ""]))

\* The agent's in-contract events are those it delivers inside request(),
\* and a terminal event after it.
NextLate ==
    \/ OnRequest
    \/ OnSuccess
    \/ OnError
    \/ OnLateUpdate
    \/ OnLateSuccess
    \/ OnLateError

SpecLate == InitLate /\ [][NextLate]_vars

\* ------------------------------------------------------------- fair delivery
\* Agents that keep their contract to the end and fallback functions whose
\* promises resolve: a request in flight gets its terminal event, an awaited
\* fallback value arrives.
NextLive ==
    \/ OnRequest
    \/ OnUpdate
    \/ OnSuccess
    \/ OnError
    \/ FallbackResolved

SpecLive ==
    /\ Init
    /\ [][NextLive]_vars
    /\ WF_vars(OnSuccess \/ OnError)
    /\ WF_vars(FallbackResolved)

\* ------------------------------------------------------------- rendering
\* Seeds for the display list: plain payloads, array payloads, and a seed
\* record that brings its own id.
DisplayDefaultMessages ==
    {<<[message |-> "d0"], [message |-> "d1", status |-> "success"]>>,
     <<[message |-> "d0"], [message |-> "[x,y]", status |-> "success"],
       [message |-> "[]", status |-> "error"]>>,
     <<[message |-> "d0"],
       [id |-> <<"default", 0, 0>>, message |-> "d1", status |-> "success"]>>}

\* The hook over the display seeds, with a host that renders after every
\* handler.
InitDisplay ==
    /\ agent = TRUE
    /\ requestPlaceholder \in
            {[kind |-> "undefined", value |-> ""], [kind |-> "value", value |-> "p"]}
    /\ requestFallback = [kind |-> "function", value |-> ""]
    /\ defaultMessages \in DisplayDefaultMessages
    /\ messages = InitMessages(defaultMessages)
    /\ idRef = 0
    /\ calls = <<>>
    /\ thrown = FALSE
    /\ synced = 0
    /\ rendered = messages
    /\ batching = FALSE
    /\ late = 0

SpecDisplay == InitDisplay /\ [][Next]_vars

\* A host that batches: setters commit to the store at once, the reactive
\* value `messages` follows at the next render.  With a static fallback no
\* onError is ever suspended.
InitBatched ==
    /\ agent = TRUE
    /\ requestPlaceholder \in
            {[kind |-> "undefined", value |-> ""], [kind |-> "value", value |-> "p"]}
    /\ requestFallback = [kind |-> "value", value |-> "e"]
    /\ defaultMessages = <<>>
    /\ messages = InitMessages(defaultMessages)
    /\ idRef = 0
    /\ calls = <<>>
    /\ thrown = FALSE
    /\ synced = 0
    /\ rendered = messages
    /\ batching = TRUE
    /\ late = 0

\* The host renders: `messages` becomes the committed store.
Render ==
    /\ rendered # messages
    /\ rendered' = messages
    /\ UNCHANGED <<config, messages, idRef, calls, thrown, synced, late>>

NextBatched ==
    \/ OnRequest
    \/ OnUpdate
    \/ OnSuccess
    \/ OnError
    \/ Render

SpecBatched == InitBatched /\ [][NextBatched]_vars

\* ------------------------------------------------------------- vocabulary of the claims
Ids(msgs) == {msgs[i].id : i \in 1..Len(msgs)}

\* The record of the store with this id.
Record(msgs, id) == msgs[CHOOSE i \in 1..Len(msgs) : msgs[i].id = id]

\* The records of msgs whose id is in ids / is not in ids, in store order.
Only(msgs, ids) == SelectSeq(msgs, LAMBDA info : info.id \in ids)

Without(msgs, ids) == SelectSeq(msgs, LAMBDA info : info.id \notin ids)

\* A record without its id.
Content(info) == [message |-> info.message, status |-> info.status]

Contents(msgs) == [i \in 1..Len(msgs) |-> Content(msgs[i])]

\* The payloads of the local and success records, by position: the k-th
\* payload is that of the k-th settled record.
SettledIndices(msgs) ==
    {i \in 1..Len(msgs) : msgs[i].status \in {"local", "success"}}

SettledPayloads(msgs) ==
    LET settled == SettledIndices(msgs)
        Rank(i) == Cardinality({j \in settled : j <= i})
    IN  [k \in 1..Cardinality(settled) |->
            msgs[CHOOSE i \in settled : Rank(i) = k].message]

\* The step adds a call (onRequest returned), or is a handler of call r.
IsRequestStep == Len(calls') = Len(calls) + 1

NewCallIndex == Len(calls) + 1

\* ------------------------------------------------------------- C1
\* C1: from a store seeded with index-derived ids, after any onRequest calls
\* and any interleaving of the events of the requests in flight, the ids of
\* the records in the store are pairwise distinct.
C1_UniqueIds ==
    \A i, j \in 1..Len(messages) : i # j => messages[i].id # messages[j].id

\* Two requests have run, one of them to a fallback record, and the store
\* holds seeded and generated records side by side.
C1_Witness ==
    /\ Len(calls) = 2
    /\ defaultMessages # <<>>
    /\ idRef >= 5
    /\ \E i \in 1..Len(messages) : messages[i].status = "error" /\ messages[i].id[1] = "msg"
    /\ Cardinality({id \in Ids(messages) : id[1] = "msg"}) >= 4

\* ------------------------------------------------------------- C2
\* The records of call r in the store other than the record of its message:
\* its placeholder, its live reply, its fallback record.
ReplyRecords(msgs, call) == Only(msgs, call.created \ {call.localMsgId})

\* After an onUpdate or onSuccess of a call, the call's placeholder is gone
\* and its only reply record is the live one, with the event's payload and
\* the event's status.
C2_AfterEvent(call) ==
    LET reply == ReplyRecords(messages, call)
        status == IF call.last.type = "onUpdate" THEN "loading" ELSE "success"
    IN  call.last.type \in {"onUpdate", "onSuccess"} =>
            /\ call.loadingMsgId \notin Ids(messages)
            /\ Len(reply) = 1
            /\ reply[1].id = call.updatingMsgId
            /\ Content(reply[1]) = [message |-> call.last.message, status |-> status]

\* C2: with a placeholder configured and an agent that emits onUpdate(u1),
\* onUpdate(u2), onSuccess(f): after the first onUpdate the placeholder is
\* absent and the request has exactly one reply record, loading, with
\* payload u1; the later events act on the record with that same id (payload
\* u2 and loading, then payload f and success) and add no record.
C2_StreamingKeepsOneRecord ==
    /\ [](requestPlaceholder.kind # "undefined" =>
            \A r \in DOMAIN calls : C2_AfterEvent(calls[r]))
    /\ [][requestPlaceholder.kind # "undefined" =>
            \A r \in DOMAIN calls :
                calls[r].last.type = "onUpdate" =>
                    /\ calls'[r].updatingMsgId = calls[r].updatingMsgId
                    /\ calls'[r].created = calls[r].created
                            \/ calls'[r].last.type = "onError"]_vars

\* A request with a placeholder record got onUpdate("") and onUpdate("u")
\* and then onSuccess: its placeholder id is no longer in the store and its
\* live record, created third, is the success record.
C2_Witness ==
    /\ IsSet(requestPlaceholder)
    /\ Len(calls) = 1
    /\ calls[1].last = [type |-> "onSuccess", message |-> "f"]
    /\ calls[1].loadingMsgId = <<"msg", 1>>
    /\ calls[1].updatingMsgId = <<"msg", 2>>
    /\ idRef = 3
    /\ Contents(ReplyRecords(messages, calls[1]))
            = <<[message |-> "f", status |-> "success"]>>

\* ------------------------------------------------------------- C3
\* C3: when onRequest(m) runs with an agent that calls onSuccess(f) inside
\* request(), then on return the store is the store before the call followed
\* by exactly two records, (m, local) and (f, success), and holds no loading
\* record of this request, with or without a placeholder.
C3_SyncSuccessAddsTwo ==
    [][(IsRequestStep /\ calls'[NewCallIndex].last.type = "onSuccess") =>
          LET call == calls'[NewCallIndex]
          IN  /\ Len(messages') = Len(messages) + 2
              /\ SubSeq(messages', 1, Len(messages)) = messages
              /\ Content(messages'[Len(messages) + 1])
                    = [message |-> call.message, status |-> "local"]
              /\ Content(messages'[Len(messages) + 2])
                    = [message |-> call.last.message, status |-> "success"]
              /\ \A i \in 1..Len(messages') :
                    messages'[i].id \in call.created =>
                        messages'[i].status # "loading"]_vars

\* onRequest has just returned from a request() that delivered onSuccess,
\* with a placeholder configured: the seed is followed by the two records.
C3_Witness ==
    /\ IsSet(requestPlaceholder)
    /\ synced = 1
    /\ Len(calls) = 1
    /\ calls[1].last.type = "onSuccess"
    /\ calls[1].loadingMsgId # null
    /\ Contents(messages)
          = Contents(InitMessages(defaultMessages))
              \o <<[message |-> "q", status |-> "local"],
                   [message |-> "f", status |-> "success"]>>

\* ------------------------------------------------------------- C4, C5
\* The step is the onError handler of call r, an event delivered after
\* agent.request returned.
IsErrorStep(r) ==
    /\ r \in DOMAIN calls
    /\ Len(calls') = Len(calls)
    /\ ~IsTerminal(calls[r].last)
    /\ calls'[r].last.type = "onError"

\* The placeholder id and the live id of a call.
RequestIds(call) == {call.loadingMsgId, call.updatingMsgId}

LocalRecord(call) ==
    [id |-> call.localMsgId, message |-> call.message, status |-> "local"]

\* C4: with no fallback configured, onError of a request leaves the store
\* without the request's placeholder and live records and adds nothing: no
\* loading or error record of the request remains, and for a lone request the
\* store is the pre-request content followed by the request's local message.
C4_ErrorWithoutFallbackRestores ==
    [][requestFallback.kind = "undefined" =>
          /\ \A r \in DOMAIN calls :
                IsErrorStep(r) =>
                    /\ messages' = Without(messages, RequestIds(calls[r]))
                    /\ ReplyRecords(messages', calls'[r]) = <<>>
                    /\ Len(calls) = 1 =>
                          messages' = Append(InitMessages(defaultMessages),
                                             LocalRecord(calls[r]))
          /\ (IsRequestStep /\ calls'[NewCallIndex].last.type = "onError") =>
                messages' = Append(messages, LocalRecord(calls'[NewCallIndex]))]_vars

\* A lone request whose placeholder was replaced by a live record got
\* onError with no fallback: the seed and the local message are what is left.
C4_Witness ==
    /\ requestFallback.kind = "undefined"
    /\ IsSet(requestPlaceholder)
    /\ Len(calls) = 1
    /\ calls[1].last.type = "onError"
    /\ calls[1].updatingMsgId # null
    /\ defaultMessages # <<>>
    /\ messages = Append(InitMessages(defaultMessages), LocalRecord(calls[1]))

\* C5: with a static fallback configured, onError of a request removes the
\* request's placeholder and live records and appends, in the same call, one
\* error record whose payload is the fallback value.
C5_StaticFallbackAppendsError ==
    [][requestFallback.kind = "value" =>
          \A r \in DOMAIN calls :
              IsErrorStep(r) =>
                  messages' = Append(Without(messages, RequestIds(calls[r])),
                                     [id |-> <<"msg", idRef>>,
                                      message |-> requestFallback.value,
                                      status |-> "error"])]_vars

\* The same statement for the static fallbacks that are truthy values.
C5_TruthyFallbackAppendsError ==
    [][(requestFallback.kind = "value" /\ Truthy(requestFallback.value)) =>
          \A r \in DOMAIN calls :
              IsErrorStep(r) =>
                  messages' = Append(Without(messages, RequestIds(calls[r])),
                                     [id |-> <<"msg", idRef>>,
                                      message |-> requestFallback.value,
                                      status |-> "error"])]_vars

\* ------------------------------------------------------------- C6
Statuses(msgs) == {msgs[i].status : i \in 1..Len(msgs)}

\* C6: for every store content the filtered history is exactly the payloads
\* of the local and success records in store order, with no payload of a
\* loading or error record, and that is what agent.request, the placeholder
\* function and the fallback function are handed.
C6_HistoryIsSettledPayloads ==
    /\ [](getFilteredMessages(messages) = SettledPayloads(messages))
    /\ [][/\ IsRequestStep =>
                LET call == calls'[NewCallIndex]
                    settled == SettledPayloads(Append(messages, LocalRecord(call)))
                IN  /\ call.requestMessages = settled
                    /\ requestPlaceholder.kind = "function" =>
                          call.placeholderMessages = settled
          /\ \A r \in DOMAIN calls :
                (IsErrorStep(r) /\ requestFallback.kind = "function") =>
                    calls'[r].fallbackMessages = SettledPayloads(messages)]_vars

\* The store holds records of all four statuses, a request was issued from
\* it and a fallback function was called on it: the histories are shorter
\* than the store.
C6_Witness ==
    /\ Statuses(messages) = MessageStatus
    /\ Len(getFilteredMessages(messages)) < Len(messages)
    /\ requestPlaceholder.kind = "function"
    /\ \E r \in DOMAIN calls :
          /\ calls[r].fallbackMessages # <<>>
          /\ calls[r].placeholderMessages # <<>>
          /\ Len(calls[r].requestMessages) >= 3
          /\ Len(calls[r].fallbackMessages) < Len(messages)

\* ------------------------------------------------------------- C7
\* C7: onRequest without a configured agent fails with an error at once and
\* has no other effect: the store, the id counter and the requests are as
\* before (no placeholder is inserted, no agent request is issued).
C7_NoAgentThrowsUnchanged ==
    [][~agent =>
          /\ thrown'
          /\ messages' = messages
          /\ idRef' = idRef
          /\ calls' = calls]_vars

\* onRequest was called without an agent and threw: the store is the seed.
C7_Witness ==
    /\ ~agent
    /\ thrown
    /\ defaultMessages # <<>>
    /\ messages = InitMessages(defaultMessages)
    /\ idRef = 0
    /\ calls = <<>>

ReplyIds(call) == call.created \ {call.localMsgId}

\* C9: with several requests in flight, an event of request A creates,
\* modifies or removes only A's reply records: the records of every other
\* request, the other requests' placeholder and live ids, and every seeded
\* or local record are left as they were.
C9_EventsTouchOwnRecordsOnly ==
    [][Len(calls') = Len(calls) =>
          /\ \A a \in DOMAIN calls :
                calls'[a] # calls[a] =>
                    /\ \A b \in DOMAIN calls \ {a} : calls'[b] = calls[b]
                    /\ Without(messages', ReplyIds(calls'[a]))
                          = Without(messages, ReplyIds(calls'[a]))
          /\ (\A a \in DOMAIN calls : calls'[a] = calls[a]) =>
                messages' = messages]_vars

\* Two requests were in flight together; the first then failed and got its
\* fallback record while the placeholder of the second is still loading in
\* the store, next to the seeded loading record.
C9_Witness ==
    /\ Len(calls) = 2
    /\ defaultMessages # <<>>
    /\ HasId(messages, <<"default", 1>>)
    /\ calls[1].last.type = "onError"
    /\ calls[1].loadingMsgId # null
    /\ ~HasId(messages, calls[1].loadingMsgId)
    /\ \E id \in calls[1].created :
          /\ HasId(messages, id)
          /\ Record(messages, id).status = "error"
          /\ id[2] > calls[2].loadingMsgId[2]
    /\ calls[2].last.type = "none"
    /\ HasId(messages, calls[2].loadingMsgId)
    /\ Record(messages, calls[2].loadingMsgId).status = "loading"

\* ------------------------------------------------------------- C10
PositionOf(msgs, id) == CHOOSE i \in 1..Len(msgs) : msgs[i].id = id

\* The place a settled record's payload has in the settled history.
SettledRank(msgs, id) ==
    Cardinality({j \in SettledIndices(msgs) : j <= PositionOf(msgs, id)})

\* C10: the history handed to a request's fallback function is computed from
\* the store at the moment of that call, not at submission: when request B
\* was submitted, or succeeded, after request A was submitted and before A's
\* onError, B's local message and success payload are in the history handed
\* to A's fallback function.
C10_FallbackSeesLiveStore ==
    [][requestFallback.kind = "function" =>
          \A a \in DOMAIN calls :
              IsErrorStep(a) =>
                  LET history == calls'[a].fallbackMessages
                  IN  /\ Len(history) = Cardinality(SettledIndices(messages))
                      /\ \A b \in DOMAIN calls :
                            b > a =>
                                /\ Len(history) > Len(calls[a].requestMessages)
                                /\ history[SettledRank(messages, calls[b].localMsgId)]
                                      = calls[b].message
                                /\ calls[b].last.type = "onSuccess" =>
                                      history[SettledRank(messages, calls[b].updatingMsgId)]
                                          = calls[b].last.message]_vars

\* The second request was submitted and succeeded while the first was in
\* flight; the first then got onError and its fallback function was handed
\* both local messages and the success payload.
C10_Witness ==
    /\ requestFallback.kind = "function"
    /\ defaultMessages = <<>>
    /\ Len(calls) = 2
    /\ calls[1].requestMessages = <<"q">>
    /\ calls[2].last.type = "onSuccess"
    /\ calls[1].last.type = "onError"
    /\ calls[1].fallbackMessages = <<"q", "q", "f">>

\* ------------------------------------------------------------- C11
IdsOf(msgs) == [i \in 1..Len(msgs) |-> msgs[i].id]

\* C11: every orchestrator mutation keeps the relative order of the records
\* it keeps and puts every record it creates at the end of the store: two
\* records present before and after a step are in the same order, and no new
\* record stands before an old one.
C11_AppendOrderOnly ==
    [][LET before == IdsOf(messages)
           after == IdsOf(messages')
           old == {before[i] : i \in 1..Len(before)}
           new == {after[i] : i \in 1..Len(after)}
       IN  \/ after = before
           \/ /\ SelectSeq(after, LAMBDA id : id \in old)
                    = SelectSeq(before, LAMBDA id : id \in new)
              /\ \A i \in 1..Len(after) - 1 :
                    after[i + 1] \in old => after[i] \in old]_vars

\* The first request's placeholder stood before the second request's
\* records; it was removed and the first request's fallback record now
\* stands after them, behind the untouched seed.
C11_Witness ==
    /\ Len(calls) = 2
    /\ defaultMessages # <<>>
    /\ SubSeq(messages, 1, 4) = InitMessages(defaultMessages)
    /\ calls[1].loadingMsgId # null
    /\ ~HasId(messages, calls[1].loadingMsgId)
    /\ calls[1].last.type = "onError"
    /\ \E id \in calls[1].created :
          /\ HasId(messages, id)
          /\ Record(messages, id).status = "error"
          /\ PositionOf(messages, id) > PositionOf(messages, calls[2].localMsgId)
          /\ PositionOf(messages, id) = Len(messages)
    /\ PositionOf(messages, calls[1].localMsgId)
          < PositionOf(messages, calls[2].localMsgId)

\* ------------------------------------------------------------- C12
\* config.parser absent, or the identity function.
IdentityParsers == {"undefined", "identity"}

HasArrayPayload(msgs) == \E i \in 1..Len(msgs) : IsArray(msgs[i].message)

\* C12 as stated: with an identity parser or none, for every store content
\* the display list has the length and order of the store and its i-th
\* record has the id, payload and status of the i-th stored record, whatever
\* the payload.
C12_IdentityDisplayEqualsStore ==
    \A parser \in IdentityParsers : parsedMessages(parser, rendered) = rendered

\* C12, amended: the same for every store content whose payloads are not
\* arrays.
C12_IdentityDisplayEqualsStoreNoArrays ==
    \A parser \in IdentityParsers :
        ~HasArrayPayload(rendered) => parsedMessages(parser, rendered) = rendered

\* A rendered store without array payloads that holds seeded and generated
\* records, among them a loading record with the falsy payload and an error
\* record: its display list is the store itself.
C12_Witness ==
    /\ ~HasArrayPayload(rendered)
    /\ Len(rendered) >= 5
    /\ \E i \in 1..Len(rendered) :
          rendered[i].status = "loading" /\ rendered[i].message = ""
    /\ \E i \in 1..Len(rendered) : rendered[i].status = "error"
    /\ parsedMessages("identity", rendered) = rendered
    /\ parsedMessages("undefined", rendered) = rendered

\* ------------------------------------------------------------- C13
DisplayParsers == Parsers \cup {"undefined"}

UniqueIdsIn(msgs) ==
    \A i, j \in 1..Len(msgs) : i # j => msgs[i].id # msgs[j].id

\* The display ids a record with this id and k display items gets.
ExpectedKeys(id, k) ==
    IF k > 1 THEN [i \in 1..k |-> Append(id, i - 1)] ELSE [i \in 1..k |-> id]

\* C13: for every store with pairwise unique record ids and every parser the
\* display ids are pairwise unique; a record with k > 1 display items yields
\* <id>_0 .. <id>_(k-1), a record with one item its own id.
C13_DisplayIdsUnique ==
    \A parser \in DisplayParsers :
        UniqueIdsIn(rendered) =>
            /\ UniqueIdsIn(parsedMessages(parser, rendered))
            /\ \A i \in 1..Len(rendered) :
                  LET items == bubbleMessages(parser, rendered[i])
                  IN  IdsOf(items) = ExpectedKeys(rendered[i].id, Len(items))

\* The same for the stores whose ids are all the hook's own (default_<index>
\* and msg_<counter>).
C13_GeneratedDisplayIdsUnique ==
    \A parser \in DisplayParsers :
        (\A i \in 1..Len(rendered) : Len(rendered[i].id) = 2) =>
            /\ UniqueIdsIn(parsedMessages(parser, rendered))
            /\ \A i \in 1..Len(rendered) :
                  LET items == bubbleMessages(parser, rendered[i])
                  IN  IdsOf(items) = ExpectedKeys(rendered[i].id, Len(items))

\* ------------------------------------------------------------- C14
\* Every id createMessage has handed out, to records still in the store and
\* to records removed since.
AllCreated == UNION {calls[r].created : r \in DOMAIN calls}

\* C14: the id generator is monotonic and never reuses a value: every
\* record the orchestrator creates gets an id no earlier record had, the
\* records removed since (superseded placeholders, records removed by
\* onError) included.
C14_IdsNeverReused ==
    /\ [](/\ Cardinality(AllCreated) = idRef
          /\ \A id \in AllCreated : id[1] = "msg" /\ id[2] < idRef)
    /\ [][/\ idRef' >= idRef
          /\ \A id \in (Ids(messages') \cup AllCreated') \ (Ids(messages) \cup AllCreated) :
                /\ id \notin Ids(InitMessages(defaultMessages))
                /\ id[1] = "msg"
                /\ id[2] >= idRef
                /\ id[2] < idRef']_vars

\* Two requests ran; placeholders were created and removed, and the newest
\* record of the store carries the latest counter value.
C14_Witness ==
    /\ Len(calls) = 2
    /\ idRef >= 6
    /\ \A r \in DOMAIN calls :
          calls[r].loadingMsgId # null /\ ~HasId(messages, calls[r].loadingMsgId)
    /\ messages[Len(messages)].id = <<"msg", idRef - 1>>
    /\ Cardinality(AllCreated \ Ids(messages)) >= 3

\* ------------------------------------------------------------- C15
\* C15: the store's getter returns the committed sequence right after a
\* setter call, also while the reactive value has not been re-rendered; so
\* two events of one request with no render between them (onUpdate then
\* onUpdate, onUpdate then onSuccess) act on the same live record and do not
\* create a second one.
C15_GetterSeesCommittedStore ==
    /\ [](\A r \in DOMAIN calls :
            calls[r].last.type \in {"onUpdate", "onSuccess"} =>
                /\ HasId(getMessages(Ctx(r)), calls[r].updatingMsgId)
                /\ Len(ReplyRecords(messages, calls[r])) = 1)
    /\ [][\A r \in DOMAIN calls :
            (/\ calls[r].last.type = "onUpdate"
             /\ ~HasId(rendered, calls[r].updatingMsgId)
             /\ calls'[r] # calls[r]
             /\ calls'[r].last.type \in {"onUpdate", "onSuccess"}) =>
                /\ calls'[r].updatingMsgId = calls[r].updatingMsgId
                /\ IdsOf(messages') = IdsOf(messages)
                /\ Content(Record(messages', calls[r].updatingMsgId))
                      = [message |-> calls'[r].last.message,
                         status |-> IF calls'[r].last.type = "onUpdate"
                                    THEN "loading" ELSE "success"]]_vars

\* Nothing was rendered since the hook was set up, and the request has been
\* updated and has then succeeded: the live record made by the first event
\* is the success record, and it is the request's only reply record.
C15_Witness ==
    /\ batching
    /\ rendered = <<>>
    /\ Len(calls) = 1
    /\ calls[1].last.type = "onSuccess"
    /\ calls[1].updatingMsgId = <<"msg", 2>>
    /\ idRef = 3
    /\ Contents(messages)
          = <<[message |-> "q", status |-> "local"],
              [message |-> "f", status |-> "success"]>>

\* ------------------------------------------------------------- C16
\* The step resumes the onError of call r with the awaited fallback value.
IsFallbackResolvedStep(r) ==
    /\ r \in DOMAIN calls
    /\ Len(calls') = Len(calls)
    /\ calls[r].awaiting > 0
    /\ calls'[r].awaiting < calls[r].awaiting
    /\ calls'[r].created # calls[r].created

\* C16: with a function fallback, onError leaves the store as it is until
\* the fallback value is there; while it is awaited the request's placeholder
\* or live record stays in the store with status loading and steps of other
\* requests do not touch it; the step that resumes with the value removes the
\* request's placeholder and live records from the store of that moment and
\* appends one error record with the value, keeping every other record.
C16_FunctionFallbackDefersStoreChange ==
    /\ [](requestFallback.kind = "function" =>
            \A r \in DOMAIN calls :
                calls[r].awaiting > 0 =>
                    LET own == Only(messages, RequestIds(calls[r]))
                    IN  /\ \A i \in 1..Len(own) : own[i].status = "loading"
                        /\ (IsSet(requestPlaceholder)
                              \/ calls[r].updatingMsgId # null) => Len(own) = 1)
    /\ [][requestFallback.kind = "function" =>
            \A r \in DOMAIN calls :
                /\ IsErrorStep(r) =>
                      /\ messages' = messages
                      /\ idRef' = idRef
                      /\ calls'[r].awaiting = calls[r].awaiting + 1
                /\ (IsRequestStep /\ calls'[NewCallIndex].last.type = "onError") =>
                      /\ calls'[NewCallIndex].awaiting = 1
                      /\ Without(messages', calls'[NewCallIndex].created) = messages
                /\ (calls[r].awaiting > 0 /\ calls'[r] = calls[r]) =>
                      Only(messages', RequestIds(calls[r]))
                          = Only(messages, RequestIds(calls[r]))
                /\ IsFallbackResolvedStep(r) =>
                      \E fallbackMsg \in FallbackReturns :
                          messages' = Append(Without(messages, RequestIds(calls[r])),
                                             [id |-> <<"msg", idRef>>,
                                              message |-> fallbackMsg,
                                              status |-> "error"])]_vars

\* The first request failed and its fallback was awaited while the second
\* request was submitted and succeeded; the resolved value then replaced the
\* first request's placeholder by an error record behind the second
\* request's records.
C16_Witness ==
    /\ requestFallback.kind = "function"
    /\ IsSet(requestPlaceholder)
    /\ defaultMessages = <<>>
    /\ Len(calls) = 2
    /\ calls[1].last.type = "onError"
    /\ calls[1].awaiting = 0
    /\ calls[1].fallbackMessages = <<"q">>
    /\ calls[2].last.type = "onSuccess"
    /\ idRef = 6
    /\ messages
          = <<[id |-> <<"msg", 0>>, message |-> "q", status |-> "local"],
              [id |-> <<"msg", 2>>, message |-> "q", status |-> "local"],
              [id |-> <<"msg", 4>>, message |-> "f", status |-> "success"],
              [id |-> <<"msg", 5>>, message |-> "e", status |-> "error"]>>

\* ------------------------------------------------------------- C17
\* The store after an onUpdate / onSuccess with payload message and the given
\* status, for a request whose tracked ids are those of call.
Reconciled(msgs, ref, call, message, status) ==
    IF \E i \in 1..Len(msgs) : msgs[i].id = call.updatingMsgId
    THEN [i \in 1..Len(msgs) |->
            IF msgs[i].id = call.updatingMsgId
            THEN [id |-> msgs[i].id, message |-> message, status |-> status]
            ELSE msgs[i]]
    ELSE Append(Without(msgs, {call.loadingMsgId}),
                [id |-> <<"msg", ref>>, message |-> message, status |-> status])

\* The store after an onError of that request.
Failed(msgs, ref, call) ==
    IF requestFallback.kind = "undefined"
    THEN Without(msgs, RequestIds(call))
    ELSE Append(Without(msgs, RequestIds(call)),
                [id |-> <<"msg", ref>>, message |-> requestFallback.value,
                 status |-> "error"])

\* C17: an event delivered for a request that already got onSuccess or
\* onError is applied by the rules of a first event: onUpdate / onSuccess
\* modify the live record in place when it is still in the store and create
\* and append a record when it is not, onError removes the request's records
\* (and appends the fallback error record); the ids the request tracks are
\* all the state it has, and a terminal event leaves them as they are.
C17_LateEventsAreApplied ==
    [][late' # late =>
          \E r \in DOMAIN calls :
              LET ev == calls'[r].last
              IN  /\ IsTerminal(calls[r].last)
                  /\ calls' = [calls EXCEPT ![r] = calls'[r]]
                  /\ calls'[r].loadingMsgId = calls[r].loadingMsgId
                  /\ ev.type \in {"onUpdate", "onSuccess"} =>
                        /\ messages' = Reconciled(messages, idRef, calls[r], ev.message,
                                                  IF ev.type = "onUpdate"
                                                  THEN "loading" ELSE "success")
                        /\ calls'[r].updatingMsgId
                              = IF HasId(messages, calls[r].updatingMsgId)
                                THEN calls[r].updatingMsgId
                                ELSE <<"msg", idRef>>
                  /\ ev.type = "onError" =>
                        /\ messages' = Failed(messages, idRef, calls[r])
                        /\ calls'[r].updatingMsgId = calls[r].updatingMsgId]_vars

\* A lone request failed twice: each onError appended the fallback error
\* record, so the store holds two of them.
C17_Witness ==
    /\ late = 1
    /\ Len(calls) = 1
    /\ calls[1].last.type = "onError"
    /\ requestFallback.kind = "value"
    /\ Contents(messages)
          = <<[message |-> "q", status |-> "local"],
              [message |-> "e", status |-> "error"],
              [message |-> "e", status |-> "error"]>>

\* ------------------------------------------------------------- C18
NoLoading(msgs) == \A i \in 1..Len(msgs) : msgs[i].status # "loading"

\* The success and error records in the store that call made.
OwnSettled(call) ==
    SelectSeq(messages,
        LAMBDA info : info.id \in call.created
                        /\ info.status \in {"success", "error"})

\* The request of call is over: it got its terminal event and no fallback
\* value is awaited.
Ended(call) == IsTerminal(call.last) /\ call.awaiting = 0

\* The request's placeholder or live record is in the store, loading.
KeepsLoadingRecord(call) ==
    LET own == Only(messages, RequestIds(call))
    IN  /\ \A i \in 1..Len(own) : own[i].status = "loading"
        /\ (IsSet(requestPlaceholder) \/ call.updatingMsgId # null) => Len(own) = 1

\* C18: with a seed without loading records, agents that deliver updates and
\* then exactly one terminal event, fallbacks that resolve and fair delivery,
\* the store eventually holds no loading record; a request that is over has
\* exactly one success-or-error record of its own after onSuccess and after
\* onError with a fallback configured, and none after onError without one;
\* a request that got no terminal event keeps its placeholder or live record
\* loading.
C18_RequestsSettle ==
    /\ [](NoLoading(InitMessages(defaultMessages)) =>
            \A r \in DOMAIN calls :
                /\ Ended(calls[r]) =>
                      Len(OwnSettled(calls[r]))
                          = IF calls[r].last.type = "onError"
                                  /\ requestFallback.kind = "undefined"
                            THEN 0 ELSE 1
                /\ InFlight(r) => KeepsLoadingRecord(calls[r]))
    /\ <>[](NoLoading(InitMessages(defaultMessages)) => NoLoading(messages))

\* The same statement for the fallbacks the code treats as configured: no
\* fallback, a function, or a truthy value.
C18_RequestsSettleTruthyFallback ==
    /\ []((/\ NoLoading(InitMessages(defaultMessages))
           /\ requestFallback.kind = "value" => Truthy(requestFallback.value)) =>
            \A r \in DOMAIN calls :
                /\ Ended(calls[r]) =>
                      Len(OwnSettled(calls[r]))
                          = IF calls[r].last.type = "onError"
                                  /\ requestFallback.kind = "undefined"
                            THEN 0 ELSE 1
                /\ InFlight(r) => KeepsLoadingRecord(calls[r]))
    /\ <>[](NoLoading(InitMessages(defaultMessages)) => NoLoading(messages))

\* ------------------------------------------------------------- C19
\* The records in the store that call made and that are loading.
OwnLoading(call) ==
    SelectSeq(messages,
        LAMBDA info : info.id \in call.created /\ info.status = "loading")

\* C19: each request has at most one loading record of its own in the store;
\* its placeholder record and its live record are never there together,
\* because the step that creates the live record removes the placeholder.
C19_OneLoadingRecordPerRequest ==
    /\ [](\A r \in DOMAIN calls :
            /\ Len(OwnLoading(calls[r])) <= 1
            /\ ~(/\ HasId(messages, calls[r].loadingMsgId)
                 /\ HasId(messages, calls[r].updatingMsgId)))
    /\ [][\A r \in DOMAIN calls' :
            (/\ calls'[r].updatingMsgId # null
             /\ calls'[r].last.type # "onError"
             /\ r \in DOMAIN calls => calls[r].updatingMsgId = null) =>
                /\ HasId(messages', calls'[r].updatingMsgId)
                /\ ~HasId(messages', calls'[r].loadingMsgId)]_vars

\* Two requests with placeholders were both updated: each one's placeholder
\* is gone and its live record is its only loading record.
C19_Witness ==
    /\ IsSet(requestPlaceholder)
    /\ Len(calls) = 2
    /\ \A r \in DOMAIN calls :
          /\ calls[r].last.type = "onUpdate"
          /\ calls[r].loadingMsgId # null
          /\ ~HasId(messages, calls[r].loadingMsgId)
          /\ OwnLoading(calls[r])
                = <<[id |-> calls[r].updatingMsgId,
                     message |-> calls[r].last.message,
                     status |-> "loading"]>>

\* ------------------------------------------------------------- C20
\* C20: the history onRequest(m) hands to agent.request is taken from the
\* store after m was appended: it is the payloads of the local and success
\* records the store held before the call, in their order, followed by m,
\* and the request's placeholder payload is not in it; the history handed to
\* a placeholder function is the same sequence, ending with m.
C20_RequestHistoryEndsWithMessage ==
    [][IsRequestStep =>
          LET call == calls'[NewCallIndex]
              history == call.requestMessages
          IN  /\ history = Append(SettledPayloads(messages), call.message)
              /\ history[Len(history)] = call.message
              /\ IsSet(requestPlaceholder) =>
                    \A i \in 1..Len(history) :
                        history[i] # (IF requestPlaceholder.kind = "function"
                                      THEN CHOOSE v \in PlaceholderReturns : TRUE
                                      ELSE requestPlaceholder.value)
              /\ requestPlaceholder.kind = "function" =>
                    call.placeholderMessages
                        = Append(SettledPayloads(messages), call.message)]_vars

\* After a first request that succeeded, a second one was submitted with a
\* placeholder function: the function and the agent both got the first
\* question, its answer and the new question, and the placeholder is in the
\* store.
C20_Witness ==
    /\ requestPlaceholder.kind = "function"
    /\ defaultMessages = <<>>
    /\ Len(calls) = 2
    /\ calls[2].last = NoEvent
    /\ calls[2].requestMessages = <<"q", "f", "q">>
    /\ calls[2].placeholderMessages = <<"q", "f", "q">>
    /\ Contents(messages)
          = <<[message |-> "q", status |-> "local"],
              [message |-> "f", status |-> "success"],
              [message |-> "q", status |-> "local"],
              [message |-> "p", status |-> "loading"]>>

====
